---- MODULE Spec2Model ----
(***************************************************************************)
(* A model of the Wasabi MCP server (src/src/index.ts): the start-up       *)
(* sequence of the module, the ListTools handler and the CallTool handler  *)
(* with its ten cases, its awaits and its catch clause.                    *)
(*                                                                         *)
(* JavaScript values are modelled as follows.                              *)
(*   - an object is a function whose domain is the set of its DEFINED      *)
(*     properties (a property holding undefined is absent, which is how    *)
(*     destructuring, JSON.stringify and the S3 client treat it);          *)
(*   - a value that may be undefined is an option: {} is undefined and     *)
(*     {v} is the value v;                                                 *)
(*   - a string is a sequence of pieces, so that a template literal is a   *)
(*     concatenation and "contains" is decidable;                          *)
(*   - the text JSON.stringify produces for a value v is the one-piece     *)
(*     string <<[json |-> v]>>.                                            *)
(***************************************************************************)
EXTENDS Integers, Sequences, FiniteSets, TLC

\* ------------------------------------------------------------------ bounds

\* Number of tool calls whose handlers are in flight together (the handler
\* is async and suspends at its awaits); a finished call frees its place for
\* the next request, so the number of calls of a process lifetime is unbounded.
MaxInFlight == 1

\* Largest number a caller supplies for max_keys or expires_in.
MaxNum == 1

\* Number of session identifiers the session manager issues.
MaxSessions == 3

\* Number of requests the transport adapter resolves sessions for together.
MaxResolvers == 2

\* --------------------------------------------------------- program constants

\* max_keys || 1000
DefaultMaxKeys == 1000

\* expires_in || 3600
DefaultExpiresIn == 3600

\* ------------------------------------------------------- JavaScript values

Undefined == {}

Some(v) == {v}

The(opt) == CHOOSE v \in opt : TRUE

EmptyObj == [k \in {} |-> {}]

\* o.k, undefined when o has no defined property k
Prop(o, k) == IF k \in DOMAIN o THEN Some(o[k]) ELSE Undefined

\* {...o, k: v} for an optional v: an undefined v leaves the property absent
With(o, k, opt) ==
    IF opt = Undefined
    THEN [x \in DOMAIN o \ {k} |-> o[x]]
    ELSE [x \in DOMAIN o \cup {k} |-> IF x = k THEN The(opt) ELSE o[x]]

\* `${v}` inside a template literal
Interpolate(opt) == IF opt = Undefined THEN "undefined" ELSE The(opt)

\* n || d for an optional number n: 0 and undefined are falsy
OrNumber(opt, d) == IF opt # Undefined /\ The(opt) # 0 THEN The(opt) ELSE d

\* s || d for an optional string s: "" and undefined are falsy
OrString(opt, d) == IF opt # Undefined /\ The(opt) # "" THEN The(opt) ELSE d

\* JSON.stringify(v, null, 2): undefined for an undefined v, a text otherwise
JSONstringify(opt) ==
    IF opt = Undefined THEN Undefined ELSE Some(<<[json |-> The(opt)]>>)

\* { type: "text", text: t }
TextItem(opt) == With([type |-> "text"], "text", opt)

\* { content: [ { type: "text", text: t } ] }
Envelope(opt) == [content |-> <<TextItem(opt)>>]

\* new Error(message), a TypeError included
ErrorObj(message) == [isError |-> TRUE, isMcp |-> FALSE, message |-> message]

\* a thrown value that is no Error instance
NonError(value) == [isError |-> FALSE, isMcp |-> FALSE, value |-> value]

\* new McpError(code, message)
McpError(code, message) ==
    [isError |-> TRUE, isMcp |-> TRUE, code |-> code, message |-> message]

\* ------------------------------------------------------------ configuration

requiredEnvVars ==
    <<"WASABI_ACCESS_KEY_ID", "WASABI_SECRET_ACCESS_KEY",
      "WASABI_REGION", "WASABI_ENDPOINT">>

EnvNames == {requiredEnvVars[i] : i \in DOMAIN requiredEnvVars}

\* process.env after dotenv.config(): each variable unset, empty or set
Environments ==
    [EnvNames -> {Undefined, Some(""), Some("value")}]

\* a check that takes an empty value for a present one
FalsyUnsetOnly(opt) == opt = Undefined

\* !process.env[envVar]
Falsy(opt) == opt = Undefined \/ The(opt) = ""

\* for (const envVar of requiredEnvVars) if (!process.env[envVar]) throw ...
\* the first variable the loop throws for, 0 when it throws for none
FirstMissing(e) ==
    LET bad == {i \in DOMAIN requiredEnvVars : Falsy(e[requiredEnvVars[i]])}
    IN  IF bad = {} THEN 0 ELSE CHOOSE i \in bad : \A j \in bad : i <= j

\* new S3Client({ region, endpoint, credentials, forcePathStyle: false })
NewS3Client(e) ==
    [region |-> The(e["WASABI_REGION"]),
     endpoint |-> <<"https://", The(e["WASABI_ENDPOINT"])>>,
     accessKeyId |-> The(e["WASABI_ACCESS_KEY_ID"]),
     secretAccessKey |-> The(e["WASABI_SECRET_ACCESS_KEY"]),
     forcePathStyle |-> FALSE]

\* ------------------------------------------------------------ tool registry

Descriptor(name, properties, required) ==
    [name |-> name, properties |-> properties, required |-> required]

BucketName == [bucket_name |-> "string"]

BucketAndKey == [bucket_name |-> "string", key |-> "string"]

\* the tools array the ListTools handler returns
Tools ==
    << Descriptor("list_buckets", EmptyObj, {}),
       Descriptor("create_bucket", BucketName, {"bucket_name"}),
       Descriptor("delete_bucket", BucketName, {"bucket_name"}),
       Descriptor("get_bucket_location", BucketName, {"bucket_name"}),
       Descriptor("list_objects",
                  [bucket_name |-> "string", prefix |-> "string",
                   max_keys |-> "number"],
                  {"bucket_name"}),
       Descriptor("upload_object",
                  [bucket_name |-> "string", key |-> "string",
                   file_path |-> "string", content_type |-> "string"],
                  {"bucket_name", "key", "file_path"}),
       Descriptor("download_object",
                  [bucket_name |-> "string", key |-> "string",
                   local_path |-> "string"],
                  {"bucket_name", "key", "local_path"}),
       Descriptor("delete_object", BucketAndKey, {"bucket_name", "key"}),
       Descriptor("get_object_metadata", BucketAndKey, {"bucket_name", "key"}),
       Descriptor("generate_presigned_url",
                  [bucket_name |-> "string", key |-> "string",
                   expires_in |-> "number"],
                  {"bucket_name", "key"}) >>

RegisteredNames == {Tools[i].name : i \in DOMAIN Tools}

DescriptorOf(name) == Tools[CHOOSE i \in DOMAIN Tools : Tools[i].name = name]

\* the tool names of the consolidated surface the documentation describes
ConsolidatedNames == {"bucket", "object", "presign"}

\* -------------------------------------------------- backend and file system

Paths == {"a.txt", "b.txt"}

\* the local files before the server starts: a.txt exists, b.txt does not
InitialFiles == [p \in Paths |-> IF p = "a.txt" THEN "original" ELSE "absent"]

\* what s3Client.send may throw: an Error, or a value that is no Error
BackendFailures == {ErrorObj(<<"AccessDenied">>), NonError("socket hang up")}

\* the input members the S3 client refuses to serialise a command without
RequiredInput(cmd) ==
    CASE cmd = "ListBuckets" -> {}
      [] cmd \in {"CreateBucket", "DeleteBucket", "GetBucketLocation",
                  "ListObjectsV2"} -> {"Bucket"}
      [] OTHER -> {"Bucket", "Key"}

\* the responses a command may resolve with: every member of an S3 output
\* is optional, so the listed collection or the body may be absent
Responses(cmd) ==
    CASE cmd = "ListBuckets" ->
           {EmptyObj, [Buckets |-> <<[Name |-> "b"], [Name |-> "c"]>>]}
      [] cmd = "GetBucketLocation" ->
           {EmptyObj, [LocationConstraint |-> "eu-central-2"]}
      [] cmd = "ListObjectsV2" ->
           {[KeyCount |-> 0], [KeyCount |-> 1, Contents |-> <<[Key |-> "k"]>>]}
      [] cmd = "GetObject" -> {EmptyObj, [Body |-> "stream"]}
      [] cmd = "HeadObject" ->
           {EmptyObj, [ContentLength |-> 42, ContentType |-> "text/plain"]}
      [] OTHER -> {EmptyObj}

\* whether the body of a command is a read stream of a file that is absent
BodyUnreadable(call, fsys) ==
    /\ "Body" \in DOMAIN call.input
    /\ fsys[call.input.Body.path] = "absent"

\* the rejections of s3Client.send(command) or getSignedUrl(...): a command
\* without its required input and a body that cannot be read are refused by
\* the client; any other command fails as the backend makes it fail
Rejections(call, fsys) ==
    IF ~(RequiredInput(call.cmd) \subseteq DOMAIN call.input)
    THEN {ErrorObj(<<"No value provided for input HTTP label">>)}
    ELSE IF BodyUnreadable(call, fsys)
    THEN {ErrorObj(<<"ENOENT: no such file or directory">>)}
    ELSE IF call.via = "send" THEN BackendFailures
    ELSE {ErrorObj(<<"Could not load credentials">>)}

\* ------------------------------------------------------ the CallTool handler

Await(on, call) == [kind |-> "await", on |-> on, call |-> call]

Throw(error) == [kind |-> "throw", error |-> error]

Return(value) == [kind |-> "return", value |-> value]

\* new XCommand(input), handed to s3Client.send
Command(cmd, input) ==
    [via |-> "send", cmd |-> cmd, input |-> input, options |-> EmptyObj]

\* getSignedUrl(s3Client, new XCommand(input), options)
Presign(cmd, input, options) ==
    [via |-> "getSignedUrl", cmd |-> cmd, input |-> input, options |-> options]

\* const { ... } = args throws a TypeError when args is undefined
DestructureError == ErrorObj(<<"Cannot destructure property of undefined">>)

\* createReadStream(undefined) and createWriteStream(undefined) throw
PathTypeError == ErrorObj(<<"The \"path\" argument must be of type string">>)

\* { Bucket: bucket_name }
BucketInput(args) == With(EmptyObj, "Bucket", Prop(args, "bucket_name"))

\* { Bucket: bucket_name, Key: key }
ObjectInput(args) == With(BucketInput(args), "Key", Prop(args, "key"))

\* MaxKeys: max_keys || 1000
MaxKeysOf(args) == OrNumber(Prop(args, "max_keys"), DefaultMaxKeys)

\* expires_in || 3600
ExpiresInOf(args) == OrNumber(Prop(args, "expires_in"), DefaultExpiresIn)

\* the handler from its entry to its first await
Begin(name, argsOpt) ==
    LET args == IF argsOpt = Undefined THEN EmptyObj ELSE The(argsOpt) IN
    CASE name = "list_buckets" -> Await("send", Command("ListBuckets", EmptyObj))
      [] name \notin RegisteredNames ->
           Throw(McpError("MethodNotFound", <<"Unknown tool: ", name>>))
      [] argsOpt = Undefined -> Throw(DestructureError)
      [] name = "create_bucket" ->
           Await("send", Command("CreateBucket", BucketInput(args)))
      [] name = "delete_bucket" ->
           Await("send", Command("DeleteBucket", BucketInput(args)))
      [] name = "get_bucket_location" ->
           Await("send", Command("GetBucketLocation", BucketInput(args)))
      [] name = "list_objects" ->
           Await("send",
                 Command("ListObjectsV2",
                         With(With(BucketInput(args), "Prefix", Prop(args, "prefix")),
                              "MaxKeys", Some(MaxKeysOf(args)))))
      [] name = "upload_object" ->
           IF Prop(args, "file_path") = Undefined THEN Throw(PathTypeError)
           ELSE Await("send",
                      Command("PutObject",
                              With(With(ObjectInput(args), "Body",
                                        Some([path |-> args.file_path])),
                                   "ContentType", Prop(args, "content_type"))))
      [] name = "download_object" ->
           Await("send", Command("GetObject", ObjectInput(args)))
      [] name = "delete_object" ->
           Await("send", Command("DeleteObject", ObjectInput(args)))
      [] name = "get_object_metadata" ->
           Await("send", Command("HeadObject", ObjectInput(args)))
      [] name = "generate_presigned_url" ->
           Await("sign",
                 Presign("GetObject", ObjectInput(args),
                         [expiresIn |-> ExpiresInOf(args)]))

\* `${bucket_name}/${key}`
BucketSlashKey(args) ==
    <<Interpolate(Prop(args, "bucket_name")), "/", Interpolate(Prop(args, "key"))>>

\* a download that opens the write stream before it looks at the body
AfterGetObjectOpensFirst(args, r) ==
    IF Prop(args, "local_path") = Undefined THEN Throw(PathTypeError)
    ELSE Await("pipeline", [path |-> args.local_path])

\* download_object after its send: if (response.Body) { createWriteStream;
\* await pipeline } else throw new Error("No body in response")
AfterGetObject(args, r) ==
    IF Prop(r, "Body") = Undefined
    THEN Throw(ErrorObj(<<"No body in response">>))
    ELSE IF Prop(args, "local_path") = Undefined THEN Throw(PathTypeError)
    ELSE Await("pipeline", [path |-> args.local_path])

\* the handler from the response of s3Client.send to its return, its throw
\* or its next await
AfterSend(name, args, r) ==
    CASE name = "list_buckets" ->
           Return(Envelope(JSONstringify(Prop(r, "Buckets"))))
      [] name = "create_bucket" ->
           Return(Envelope(Some(<<"Bucket '", Interpolate(Prop(args, "bucket_name")),
                                  "' created successfully">>)))
      [] name = "delete_bucket" ->
           Return(Envelope(Some(<<"Bucket '", Interpolate(Prop(args, "bucket_name")),
                                  "' deleted successfully">>)))
      [] name = "get_bucket_location" ->
           Return(Envelope(JSONstringify(Some(
               With(With(EmptyObj, "bucket", Prop(args, "bucket_name")),
                    "location",
                    Some(OrString(Prop(r, "LocationConstraint"), "us-east-1")))))))
      [] name = "list_objects" ->
           Return(Envelope(JSONstringify(Some(
               With(With(With(EmptyObj, "bucket", Prop(args, "bucket_name")),
                         "count", Prop(r, "KeyCount")),
                    "objects", Prop(r, "Contents"))))))
      [] name = "upload_object" ->
           Return(Envelope(Some(<<"File uploaded successfully to ">>
                                \o BucketSlashKey(args))))
      [] name = "download_object" -> AfterGetObject(args, r)
      [] name = "delete_object" ->
           Return(Envelope(Some(<<"Object ">> \o BucketSlashKey(args)
                                \o <<" deleted successfully">>)))
      [] name = "get_object_metadata" ->
           Return(Envelope(JSONstringify(Some(
               With(With(With(With(With(With(With(EmptyObj,
                   "bucket", Prop(args, "bucket_name")),
                   "key", Prop(args, "key")),
                   "size", Prop(r, "ContentLength")),
                   "contentType", Prop(r, "ContentType")),
                   "lastModified", Prop(r, "LastModified")),
                   "etag", Prop(r, "ETag")),
                   "metadata", Prop(r, "Metadata"))))))

\* the handler from the resolution of pipeline(...) to its return
AfterPipeline(args) ==
    Return(Envelope(Some(<<"Object downloaded successfully to ",
                           Interpolate(Prop(args, "local_path"))>>)))

\* the handler from the resolution of getSignedUrl(...) to its return
AfterSign(args, url) ==
    Return(Envelope(JSONstringify(Some(
        With(With(With(With(EmptyObj,
            "bucket", Prop(args, "bucket_name")),
            "key", Prop(args, "key")),
            "url", Some(url)),
            "expiresIn", Some(ExpiresInOf(args)))))))

\* error instanceof Error ? error.message : String(error)
ErrorMessage(error) == IF error.isError THEN error.message ELSE <<error.value>>

\* a catch clause that reports the failure without the caught message
CatchWithoutMessage(error) ==
    McpError("InternalError", <<"Tool execution failed">>)

\* catch (error) { throw new McpError(ErrorCode.InternalError, ...) }
Catch(error) ==
    McpError("InternalError", <<"Tool execution failed: ">> \o ErrorMessage(error))

\* a catch clause that wraps Error instances only and rethrows other values
TryCatchErrorsOnly(step) ==
    IF step.kind = "throw" /\ step.error.isError
    THEN Throw(Catch(step.error)) ELSE step

\* try { ... } catch: a step that throws leaves the handler as Catch rethrows it
TryCatch(step) ==
    IF step.kind = "throw" THEN Throw(Catch(step.error)) ELSE step

\* -------------------------------------------------------------------- state

VARIABLES
    env,        \* process.env after dotenv.config()
    main,       \* position of the module's top-level code
    s3Client,   \* the S3 client, undefined until it is constructed
    listed,     \* the result of the latest ListTools request, if any
    pc,         \* per tool call: the await its handler is suspended at
    req,        \* per tool call: request.params
    sent,       \* per tool call: what its handler handed to the S3 client
    reply,      \* per tool call: how the promise it awaited last was settled
    response,   \* per tool call: the value its handler returned, if any
    failure,    \* per tool call: the value its handler threw, if any
    files,      \* the local file system
    sessions,   \* session manager: the state of every session ever created,
                \* indexed by its identifier
    registry,   \* session manager: the identifiers that map to a live session
    resolving   \* per request of the transport adapter: its resolve() call

sessionVars == <<sessions, registry, resolving>>

vars ==
    <<env, main, s3Client, listed, pc, req, sent, reply, response, failure, files,
      sessionVars>>

Resolvers == 1 .. MaxResolvers

CallIds == 1 .. MaxInFlight

\* ------------------------------------------------------------------- inputs

\* the values a caller supplies for a parameter
PropValues(p) ==
    CASE p \in {"max_keys", "expires_in"} -> 0 .. MaxNum
      [] p \in {"file_path", "local_path"} -> Paths
      [] p = "bucket_name" -> {"b"}
      [] p = "key" -> {"k"}
      [] p = "prefix" -> {"p/"}
      [] p = "content_type" -> {"text/plain"}

RECURSIVE ObjectsOver(_)
\* every object that defines some of the properties props
ObjectsOver(props) ==
    IF props = {} THEN {EmptyObj}
    ELSE LET p == CHOOSE x \in props : TRUE
             rest == ObjectsOver(props \ {p})
         IN  rest \cup {With(o, p, Some(v)) : o \in rest, v \in PropValues(p)}

CallNames == RegisteredNames \cup ConsolidatedNames

\* request.params.arguments: absent, or an object over the tool's properties
CallArguments(name) ==
    {Undefined} \cup
    {Some(o) : o \in IF name \in RegisteredNames
                     THEN ObjectsOver(DOMAIN DescriptorOf(name).properties)
                     ELSE {EmptyObj}}

\* --------------------------------------------------------------------- Init

Init ==
    /\ env \in Environments
    /\ main = "load"
    /\ s3Client = Undefined
    /\ listed = Undefined
    /\ pc = [c \in CallIds |-> "idle"]
    /\ req = [c \in CallIds |-> Undefined]
    /\ sent = [c \in CallIds |-> <<>>]
    /\ reply = [c \in CallIds |-> Undefined]
    /\ response = [c \in CallIds |-> Undefined]
    /\ failure = [c \in CallIds |-> Undefined]
    /\ files = InitialFiles
    /\ sessions = <<>>
    /\ registry = {}
    /\ resolving = [r \in Resolvers |-> [phase |-> "idle"]]

\* ------------------------------------------------------------------ start-up

\* the loop over requiredEnvVars: it throws, and the module fails to load,
\* at the first variable that is unset or empty
ValidateEnv ==
    /\ main = "load"
    /\ main' = IF FirstMissing(env) = 0 THEN "validated" ELSE "failed"
    /\ UNCHANGED <<sessionVars, env, s3Client, listed, pc, req, sent, reply, response, failure, files>>

\* const s3Client = new S3Client(...)
CreateClient ==
    /\ main = "validated"
    /\ s3Client' = Some(NewS3Client(env))
    /\ main' = "client"
    /\ UNCHANGED <<sessionVars, env, listed, pc, req, sent, reply, response, failure, files>>

\* new Server(...), the two setRequestHandler calls, main(): server.connect
Connect ==
    /\ main = "client"
    /\ main' = "running"
    /\ UNCHANGED <<sessionVars, env, s3Client, listed, pc, req, sent, reply, response, failure, files>>

\* ----------------------------------------------------------------- requests

\* a ListTools handler that hands out one shared array and loses its first
\* descriptor once a result has been given out
ListToolsShrinking ==
    /\ main = "running"
    /\ listed' = Some(IF listed = Undefined THEN Tools ELSE Tail(Tools))
    /\ UNCHANGED <<sessionVars, env, main, s3Client, pc, req, sent, reply, response, failure, files>>

\* the ListTools handler
ListTools ==
    /\ main = "running"
    /\ listed' = Some(Tools)
    /\ UNCHANGED <<sessionVars, env, main, s3Client, pc, req, sent, reply, response, failure, files>>

\* a promise resolved with value
Resolved(on, value) == [on |-> on, ok |-> TRUE, value |-> value]

\* a promise rejected with error
Rejected(on, error) == [on |-> on, ok |-> FALSE, error |-> error]

\* one step of the handler of call c, inside its try block
Advance(c, step) ==
    LET s == TryCatch(step) IN
    /\ pc' = [pc EXCEPT ![c] = IF s.kind = "await" THEN s.on ELSE "done"]
    /\ sent' = [sent EXCEPT ![c] =
                  IF s.kind = "await" /\ s.on \in {"send", "sign"}
                  THEN Append(@, s.call) ELSE @]
    /\ response' = [response EXCEPT ![c] =
                      IF s.kind = "return" THEN Some(s.value) ELSE @]
    /\ failure' = [failure EXCEPT ![c] =
                     IF s.kind = "throw" THEN Some(s.error) ELSE @]

ArgsOf(c) == IF req[c].arguments = Undefined THEN EmptyObj ELSE The(req[c].arguments)

LastSent(c) == sent[c][Len(sent[c])]

\* a CallTool request arrives and its handler runs to its first await
CallTool(c) ==
    /\ main = "running"
    /\ pc[c] = "idle"
    /\ \E name \in CallNames : \E arguments \in CallArguments(name) :
         /\ req' = [req EXCEPT ![c] = [name |-> name, arguments |-> arguments]]
         /\ Advance(c, Begin(name, arguments))
    /\ UNCHANGED <<sessionVars, env, main, s3Client, listed, reply, files>>

\* s3Client.send(command) resolves: the command has its required input and
\* a readable body, so the only rejections left are the backend's
SendResolves(c) ==
    /\ pc[c] = "send"
    /\ Rejections(LastSent(c), files) \subseteq BackendFailures
    /\ \E r \in Responses(LastSent(c).cmd) :
         /\ reply' = [reply EXCEPT ![c] = Some(Resolved("send", r))]
         /\ Advance(c, AfterSend(req[c].name, ArgsOf(c), r))
    /\ UNCHANGED <<sessionVars, env, main, s3Client, listed, req, files>>

\* a handler that sends the command once more when the first send rejects
SendRejectsAndRetries(c) ==
    /\ pc[c] = "send"
    /\ \E error \in Rejections(LastSent(c), files) :
         /\ reply' = [reply EXCEPT ![c] = Some(Rejected("send", error))]
         /\ IF Len(sent[c]) < 2
            THEN Advance(c, Await("send", LastSent(c)))
            ELSE Advance(c, Throw(error))
    /\ UNCHANGED <<sessionVars, env, main, s3Client, listed, req, files>>

\* s3Client.send(command) rejects
SendRejects(c) ==
    /\ pc[c] = "send"
    /\ \E error \in Rejections(LastSent(c), files) :
         /\ reply' = [reply EXCEPT ![c] = Some(Rejected("send", error))]
         /\ Advance(c, Throw(error))
    /\ UNCHANGED <<sessionVars, env, main, s3Client, listed, req, files>>

\* getSignedUrl(...) resolves
SignResolves(c) ==
    /\ pc[c] = "sign"
    /\ RequiredInput(LastSent(c).cmd) \subseteq DOMAIN LastSent(c).input
    /\ reply' = [reply EXCEPT ![c] = Some(Resolved("sign", "https://signed"))]
    /\ Advance(c, AfterSign(ArgsOf(c), "https://signed"))
    /\ UNCHANGED <<sessionVars, env, main, s3Client, listed, req, files>>

\* getSignedUrl(...) rejects
SignRejects(c) ==
    /\ pc[c] = "sign"
    /\ \E error \in Rejections(LastSent(c), files) :
         /\ reply' = [reply EXCEPT ![c] = Some(Rejected("sign", error))]
         /\ Advance(c, Throw(error))
    /\ UNCHANGED <<sessionVars, env, main, s3Client, listed, req, files>>

\* pipeline(response.Body, writeStream) resolves: the file holds the object
PipelineResolves(c) ==
    /\ pc[c] = "pipeline"
    /\ files' = [files EXCEPT ![ArgsOf(c).local_path] = "downloaded"]
    /\ reply' = [reply EXCEPT ![c] = Some(Resolved("pipeline", "done"))]
    /\ Advance(c, AfterPipeline(ArgsOf(c)))
    /\ UNCHANGED <<sessionVars, env, main, s3Client, listed, req>>

\* pipeline(...) rejects: the file could not be opened and is as it was, or
\* it was opened for writing and holds a part of the object
PipelineRejects(c) ==
    /\ pc[c] = "pipeline"
    /\ \E after \in {files[ArgsOf(c).local_path], "partial"} :
         files' = [files EXCEPT ![ArgsOf(c).local_path] = after]
    /\ reply' = [reply EXCEPT ![c] =
                   Some(Rejected("pipeline", ErrorObj(<<"EACCES: permission denied">>)))]
    /\ Advance(c, Throw(ErrorObj(<<"EACCES: permission denied">>)))
    /\ UNCHANGED <<sessionVars, env, main, s3Client, listed, req>>

\* the SDK sends the handler's result or error to the client; the tool call
\* is over and its place is free for the next request
Deliver(c) ==
    /\ pc[c] = "done"
    /\ pc' = [pc EXCEPT ![c] = "idle"]
    /\ req' = [req EXCEPT ![c] = Undefined]
    /\ sent' = [sent EXCEPT ![c] = <<>>]
    /\ reply' = [reply EXCEPT ![c] = Undefined]
    /\ response' = [response EXCEPT ![c] = Undefined]
    /\ failure' = [failure EXCEPT ![c] = Undefined]
    /\ UNCHANGED <<sessionVars, env, main, s3Client, listed, files>>

Next ==
    \/ ValidateEnv
    \/ CreateClient
    \/ Connect
    \/ ListTools
    \/ \E c \in CallIds : CallTool(c)
    \/ \E c \in CallIds : SendResolves(c)
    \/ \E c \in CallIds : SendRejects(c)
    \/ \E c \in CallIds : SignResolves(c)
    \/ \E c \in CallIds : SignRejects(c)
    \/ \E c \in CallIds : PipelineResolves(c)
    \/ \E c \in CallIds : PipelineRejects(c)
    \/ \E c \in CallIds : Deliver(c)

Spec == Init /\ [][Next]_vars

\* ---------------------------------------------------------- session manager
\* The session manager of the HTTP transport variant, as its contract
\* describes it: identifiers are generated by the server, the n-th session
\* created has the identifier n, and 0 stands for an identifier a client made
\* up, which the server never issues.

\* resolve(sessionId?): the live session the identifier maps to, otherwise a
\* new session under a fresh identifier, registered in state initializing
resolve(sess, reg, carried) ==
    IF carried # Undefined /\ The(carried) \in reg
    THEN [sessions |-> sess, registry |-> reg,
          session |-> The(carried), created |-> FALSE]
    ELSE [sessions |-> Append(sess, "initializing"),
          registry |-> reg \cup {Len(sess) + 1},
          session |-> Len(sess) + 1, created |-> TRUE]

\* markActive(sessionId): initializing -> active
markActive(sess, id) ==
    IF sess[id] = "initializing" THEN [sess EXCEPT ![id] = "active"] ELSE sess

\* terminate(sessionId): the session leaves the registry and is terminated,
\* whatever its state; an unknown identifier is a no-op (NotFound)
terminate(sess, reg, id) ==
    IF id \in reg
    THEN [sessions |-> [sess EXCEPT ![id] = "terminated"], registry |-> reg \ {id}]
    ELSE [sessions |-> sess, registry |-> reg]

\* the identifiers a frame may carry: none, a made-up one, or an issued one
CarriedIds == {Undefined} \cup {Some(i) : i \in 0 .. Len(sessions)}

\* an inbound frame arrives and the transport adapter extracts its identifier
Request(r) ==
    /\ resolving[r].phase = "idle"
    /\ \E carried \in CarriedIds :
         resolving' = [resolving EXCEPT ![r] =
             [phase |-> "pending", carried |-> carried,
              brandNew |-> carried # Undefined
                           /\ The(carried) \notin 1 .. Len(sessions)]]
    /\ UNCHANGED <<env, main, s3Client, listed, pc, req, sent, reply, response,
                   failure, files, sessions, registry>>

\* resolve() runs for a pending request, atomically
Resolve(r) ==
    /\ resolving[r].phase = "pending"
    /\ LET out == resolve(sessions, registry, resolving[r].carried) IN
         /\ Len(out.sessions) <= MaxSessions
         /\ sessions' = out.sessions
         /\ registry' = out.registry
         /\ resolving' = [resolving EXCEPT ![r] =
                [phase |-> "resolved", carried |-> @.carried,
                 brandNew |-> @.brandNew,
                 session |-> out.session, created |-> out.created,
                 during |-> {q \in Resolvers \ {r} :
                               resolving[q].phase = "pending"}]]
    /\ UNCHANGED <<env, main, s3Client, listed, pc, req, sent, reply, response,
                   failure, files>>

\* the transport confirms that the client has the identifier
MarkActive(id) ==
    /\ id \in registry
    /\ sessions[id] = "initializing"
    /\ sessions' = markActive(sessions, id)
    /\ UNCHANGED <<env, main, s3Client, listed, pc, req, sent, reply, response,
                   failure, files, registry, resolving>>

\* explicit termination, or the transport closed
Terminate(id) ==
    /\ sessions' = terminate(sessions, registry, id).sessions
    /\ registry' = terminate(sessions, registry, id).registry
    /\ UNCHANGED <<env, main, s3Client, listed, pc, req, sent, reply, response,
                   failure, files, resolving>>

\* the request that resolved a session has been answered
Finish(r) ==
    /\ resolving[r].phase = "resolved"
    /\ resolving' = [resolving EXCEPT ![r] = [phase |-> "idle"]]
    /\ UNCHANGED <<env, main, s3Client, listed, pc, req, sent, reply, response,
                   failure, files, sessions, registry>>

\* a configured server that is running, with no session yet
SessionInit ==
    /\ env = [v \in EnvNames |-> Some("value")]
    /\ main = "running"
    /\ s3Client = Some(NewS3Client(env))
    /\ listed = Undefined
    /\ pc = [c \in CallIds |-> "idle"]
    /\ req = [c \in CallIds |-> Undefined]
    /\ sent = [c \in CallIds |-> <<>>]
    /\ reply = [c \in CallIds |-> Undefined]
    /\ response = [c \in CallIds |-> Undefined]
    /\ failure = [c \in CallIds |-> Undefined]
    /\ files = InitialFiles
    /\ sessions = <<>>
    /\ registry = {}
    /\ resolving = [r \in Resolvers |-> [phase |-> "idle"]]

SessionNext ==
    \/ \E r \in Resolvers : Request(r)
    \/ \E r \in Resolvers : Resolve(r)
    \/ \E id \in registry : MarkActive(id)
    \/ \E id \in 0 .. Len(sessions) : Terminate(id)
    \/ \E r \in Resolvers : Finish(r)

SpecSessions == SessionInit /\ [][SessionNext]_vars

\* ------------------------------------------------------------------- claims

Started(c) == pc[c] # "idle"

Done(c) == pc[c] = "done"

NameOf(c) == req[c].name

Succeeded(c) == Done(c) /\ response[c] # Undefined

Failed(c) == Done(c) /\ failure[c] # Undefined

\* the kind of the error call c ended in, "untyped" for a raw exception
KindOf(c) ==
    IF The(failure[c]).isMcp THEN The(failure[c]).code ELSE "untyped"

\* whether the string s contains the string sub
Contains(s, sub) ==
    \E i \in 1 .. (Len(s) - Len(sub) + 1) : SubSeq(s, i, i + Len(sub) - 1) = sub

\* whether call c is to a registered tool and omits a parameter it requires
MissingRequired(c) ==
    /\ NameOf(c) \in RegisteredNames
    /\ ~(DescriptorOf(NameOf(c)).required \subseteq DOMAIN ArgsOf(c))

ErrorKinds == {"InvalidParams", "MethodNotFound", "InternalError"}

\* C1: a call that omits a required parameter of its tool ends in an
\* InvalidParams error, and nothing is handed to the backend client for it.
C1_MissingParameterIsInvalidParams ==
    \A c \in CallIds :
        (Started(c) /\ MissingRequired(c)) =>
            /\ sent[c] = <<>>
            /\ Done(c) => (Failed(c) /\ KindOf(c) = "InvalidParams")

\* C2: a call whose tool name is not registered ends in a MethodNotFound
\* error, and nothing is handed to the backend client for it.
C2_UnknownToolIsMethodNotFound ==
    \A c \in CallIds :
        (Done(c) /\ NameOf(c) \notin RegisteredNames) =>
            /\ sent[c] = <<>>
            /\ Failed(c)
            /\ KindOf(c) = "MethodNotFound"

\* C3: a finished call has exactly one outcome: a content envelope, or an
\* error with a kind among InvalidParams, MethodNotFound, InternalError and
\* a message; a call in flight has neither, and no untyped value escapes.
C3_OneTypedOutcome ==
    \A c \in CallIds :
        IF Done(c)
        THEN \/ /\ response[c] # Undefined
                /\ failure[c] = Undefined
                /\ DOMAIN The(response[c]) = {"content"}
             \/ /\ response[c] = Undefined
                /\ failure[c] # Undefined
                /\ KindOf(c) \in ErrorKinds
                /\ Len(The(failure[c]).message) > 0
        ELSE response[c] = Undefined /\ failure[c] = Undefined

\* C3 witness: a call ended in a typed error after the backend client threw a
\* value that is no Error instance.
C3_Witness ==
    \E c \in CallIds :
        /\ Failed(c)
        /\ reply[c] # Undefined
        /\ ~The(reply[c]).ok
        /\ ~The(reply[c]).error.isError

\* whether the backend request of call c was rejected
SendFailed(c) ==
    /\ reply[c] # Undefined
    /\ The(reply[c]).on = "send"
    /\ ~The(reply[c]).ok

\* C4: when the backend request of a call fails, the call ends in an
\* InternalError whose message contains the backend's message unchanged, and
\* in no success response.
C4_BackendFailureIsInternalError ==
    \A c \in CallIds :
        SendFailed(c) =>
            /\ response[c] = Undefined
            /\ Failed(c)
            /\ KindOf(c) = "InternalError"
            /\ Contains(The(failure[c]).message, ErrorMessage(The(reply[c]).error))

\* C4 witness: a backend request was rejected with AccessDenied and the call
\* has ended.
C4_Witness ==
    \E c \in CallIds :
        /\ Done(c)
        /\ SendFailed(c)
        /\ The(reply[c]).error \in BackendFailures
        /\ The(reply[c]).error.isError

\* C5: a call hands at most one request to the backend client, and once that
\* request has failed the call is over: nothing is sent again.
C5_NoRetries ==
    \A c \in CallIds :
        /\ Len(sent[c]) <= 1
        /\ (reply[c] # Undefined /\ ~The(reply[c]).ok) => Done(c)

\* C5 witness: a call whose single backend request failed has ended.
C5_Witness ==
    \E c \in CallIds : Done(c) /\ SendFailed(c) /\ Len(sent[c]) = 1

\* C6: every successful call returns an envelope whose text is a string.
C6_SuccessTextIsString ==
    \A c \in CallIds :
        Succeeded(c) => "text" \in DOMAIN The(response[c]).content[1]

\* whether call c is an upload whose file_path names a file that is absent
UploadOfMissingFile(c) ==
    /\ NameOf(c) = "upload_object"
    /\ "file_path" \in DOMAIN ArgsOf(c)
    /\ files[ArgsOf(c).file_path] = "absent"

\* C7: an upload of a missing file ends in an InternalError, and no
\* put-object request is handed to the backend client for it.
C7_MissingFileIsNeverSent ==
    \A c \in CallIds :
        (Started(c) /\ UploadOfMissingFile(c)) =>
            /\ \A i \in DOMAIN sent[c] : sent[c][i].cmd # "PutObject"
            /\ Done(c) => (Failed(c) /\ KindOf(c) = "InternalError")

\* whether call c reached a case of the switch other than the default
Routed(c) ==
    /\ Started(c)
    /\ ~(Failed(c) /\ Contains(The(failure[c]).message,
                               <<"Unknown tool: ", NameOf(c)>>))

\* C8: ListTools returns exactly the tools bucket, object and presign, and a
\* call is routed exactly when its name is one of these.
C8_ThreeTools ==
    /\ listed # Undefined =>
           {The(listed)[i].name : i \in DOMAIN The(listed)} = ConsolidatedNames
    /\ \A c \in CallIds :
           Started(c) => (Routed(c) <=> NameOf(c) \in ConsolidatedNames)

\* whether the four required configuration values are present and not empty
Configured == \A v \in EnvNames : env[v] # Undefined /\ The(env[v]) # ""

\* C9: unless all four configuration values are present and not empty, the
\* module fails to load: no client is created, the transport is never
\* connected and no request is handled.
C9_NeverPartiallyConfigured ==
    Configured \/
        /\ main \in {"load", "failed"}
        /\ s3Client = Undefined
        /\ listed = Undefined
        /\ \A c \in CallIds : ~Started(c)

\* C9 witness: start-up has failed although only the endpoint is at fault,
\* being set but empty.
C9_Witness ==
    /\ main = "failed"
    /\ env["WASABI_ENDPOINT"] = Some("")
    /\ \A v \in EnvNames \ {"WASABI_ENDPOINT"} : env[v] = Some("value")

\* C10: the MaxKeys of a list-objects request is 1000 when max_keys is
\* omitted and the supplied number, 0 included, when it is supplied.
C10_MaxKeysIsSuppliedValue ==
    \A c \in CallIds :
        (Started(c) /\ NameOf(c) = "list_objects" /\ sent[c] # <<>>) =>
            sent[c][1].input.MaxKeys =
                IF "max_keys" \in DOMAIN ArgsOf(c)
                THEN ArgsOf(c).max_keys ELSE DefaultMaxKeys

\* whether call c asks for a presigned URL
PresignCall(c) == NameOf(c) \in {"generate_presigned_url", "presign"}

\* the record a successful presign call returns as JSON text
PresignResult(c) == The(response[c]).content[1].text[1].json

\* C11: a presign call without an operation parameter returns a record with
\* an operation field whose value is "get".
C11_OperationDefaultsToGet ==
    \A c \in CallIds :
        (Succeeded(c) /\ PresignCall(c) /\ "operation" \notin DOMAIN ArgsOf(c)) =>
            /\ "operation" \in DOMAIN PresignResult(c)
            /\ PresignResult(c).operation = "get"

\* C12: in a presign call the expiry used to sign is 3600 when expires_in is
\* omitted and the supplied value when it is supplied, and the expiry the
\* result reports is the one used to sign.
C12_ExpiryIsSuppliedValue ==
    \A c \in CallIds :
        (Started(c) /\ PresignCall(c) /\ sent[c] # <<>>) =>
            /\ sent[c][1].options.expiresIn =
                   IF "expires_in" \in DOMAIN ArgsOf(c)
                   THEN ArgsOf(c).expires_in ELSE DefaultExpiresIn
            /\ Succeeded(c) =>
                   PresignResult(c).expiresIn = sent[c][1].options.expiresIn

\* C13: once a ListTools request has been answered, every later answer, after
\* any tool calls and ListTools requests, is the same list of descriptors.
C13_ListToolsIsStable ==
    [][listed # Undefined => listed' = listed]_vars

\* C13 witness: the tools have been listed and a tool call has failed, so the
\* next ListTools request follows both.
C13_Witness ==
    /\ listed = Some(Tools)
    /\ \E c \in CallIds : Failed(c) /\ SendFailed(c)

\* C15: a download whose backend request fails or returns no body ends in an
\* error in the step that learns it, with the local files as they were; and
\* the local files change only in a step of a download that is writing the
\* body it received.
C15_DownloadWritesOnlyAfterBody ==
    [][/\ \A c \in CallIds :
             (/\ pc[c] = "send"
              /\ pc'[c] # "send"
              /\ NameOf(c) = "download_object"
              /\ ~(The(reply'[c]).ok /\ "Body" \in DOMAIN The(reply'[c]).value))
             => /\ files' = files
                /\ pc'[c] = "done"
                /\ failure'[c] # Undefined
       /\ files' # files =>
             \E c \in CallIds :
                 /\ pc[c] = "pipeline"
                 /\ NameOf(c) = "download_object"
                 /\ The(reply[c]).on = "send"
                 /\ The(reply[c]).ok
                 /\ "Body" \in DOMAIN The(reply[c]).value
                 /\ \A p \in Paths \ {ArgsOf(c).local_path} : files'[p] = files[p]]_vars

\* C15 witness: a download to b.txt has ended in an error because the
\* response had no body, and b.txt still does not exist.
C15_Witness ==
    \E c \in CallIds :
        /\ Failed(c)
        /\ NameOf(c) = "download_object"
        /\ Prop(ArgsOf(c), "local_path") = Some("b.txt")
        /\ The(reply[c]).on = "send"
        /\ The(reply[c]).ok
        /\ "Body" \notin DOMAIN The(reply[c]).value
        /\ files["b.txt"] = "absent"

\* whether the resolve() calls of r and q ran concurrently for the same
\* identifier, which mapped to no session when either of them arrived
ConcurrentForSameNewIdentifier(r, q) ==
    /\ r # q
    /\ resolving[r].phase = "resolved"
    /\ resolving[q].phase = "resolved"
    /\ q \in resolving[r].during
    /\ resolving[r].brandNew
    /\ resolving[q].brandNew
    /\ resolving[r].carried = resolving[q].carried

\* C14: two concurrent resolve() calls carrying the same brand-new identifier
\* create exactly one session, and both callers observe that session.
C14_OneSessionForSameNewIdentifier ==
    \A r, q \in Resolvers :
        ConcurrentForSameNewIdentifier(r, q) =>
            /\ resolving[r].session = resolving[q].session
            /\ resolving[r].created # resolving[q].created

====
